---- MODULE Spec2Model ----
(***************************************************************************)
(* A model of user_profile_manager.py: the ValidatedProperty descriptor,   *)
(* the UserProfileManager class with its two validated attributes, its     *)
(* last_login field and its class-level WeakValueDictionary cache, run on  *)
(* a reference-counting heap in which id() is an object's address and an   *)
(* address is free for reuse once its object has been deallocated.         *)
(***************************************************************************)
EXTENDS Integers, Sequences, FiniteSets, TLC

\* ------------------------------------------------------------------ bounds
\* How many UserProfileManager objects are constructed in one run.
MaxObjects == 2

\* The program's variables: each is unbound or a strong reference to an object.
Names == {"u", "v"}

\* The addresses the allocator hands out: the values id() can take.
Addrs == {"0x10", "0x20"}

\* ------------------------------------------------------------------ values
\* A Python value is a type tag and a payload; the payload of a str is its
\* characters, the payload of a list is its elements (one-character strs),
\* the payload of an int is its digits.
PyStr(chars) == [t |-> "str", v |-> chars]
PyInt(digits) == [t |-> "int", v |-> digits]
PyList(elems) == [t |-> "list", v |-> elems]
None == [t |-> "NoneType", v |-> <<>>]

\* The values assigned to username: the empty string, a non-empty string,
\* and two values that are not strings, None and a list.
UsernameInputs ==
  { PyStr(<<>>), PyStr(<<"a">>), None, PyList(<<"@", ".">>) }

\* The values assigned to email: strings without '@', without '.', without
\* both and with both, and values that are not strings: None, a number, and
\* a list that holds the elements "@" and ".".
EmailInputs ==
  { PyStr(<<"a">>), PyStr(<<"a", "@">>), PyStr(<<"a", ".">>),
    PyStr(<<"a", "@", ".">>), None, PyInt(<<"5">>), PyList(<<"@", ".">>) }

Inputs(attr) == IF attr = "username" THEN UsernameInputs ELSE EmailInputs

\* The values set_last_login is called with.
LoginValues == { None, PyInt(<<"5">>) }

\* ------------------------------------------------------------- exceptions
NoException == [type |-> "none", msg |-> <<>>]
ValueError(name) == [type |-> "ValueError", msg |-> <<"Invalid value for ", name>>]
TypeError == [type |-> "TypeError", msg |-> <<"argument is not iterable">>]

\* ------------------------------------------------------------- validators
\* isinstance(x, str)
IsInstanceStr(x) == x.t = "str"

\* len(x) for the values that have a length
PyLen(x) == Len(x.v)

\* Whether the `in` operator is defined for x (x is iterable / a container).
SupportsIn(x) == x.t \in {"str", "list"}

\* c in x, for a one-character str c: a substring test on a str, an
\* element test on a list.
PyIn(c, x) == \E i \in 1..Len(x.v) : x.v[i] = c

\* lambda x: isinstance(x, str) and len(x) > 0
\* The result is "True", "False" or the name of the exception raised.
UsernameValidatorLongerThanOne(x) ==
  IF IsInstanceStr(x) /\ PyLen(x) > 1 THEN "True" ELSE "False"

UsernameValidator(x) ==
  IF IsInstanceStr(x) /\ PyLen(x) > 0 THEN "True" ELSE "False"

\* lambda x: "@" in x and "." in x

EmailValidator(x) ==
  IF ~SupportsIn(x) THEN "TypeError"
  ELSE IF PyIn("@", x) /\ PyIn(".", x) THEN "True" ELSE "False"

\* ------------------------------------------------------------- descriptor
\* ValidatedProperty.__init__: the validator, and no name yet.
ValidatedProperty(validator) == [validator |-> validator, name |-> "None"]

\* ValidatedProperty.__set_name__: the class body binds the attribute name.
SetNameForgets(desc, name) == desc

SetName(desc, name) == [desc EXCEPT !.name = name]

\* The two descriptors of the class body, after the class is created.
Descriptor(attr) ==
  IF attr = "username"
    THEN SetName(ValidatedProperty("username"), "username")
    ELSE SetName(ValidatedProperty("email"), "email")

\* self.validator(value)
Validate(desc, value) ==
  IF desc.validator = "username" THEN UsernameValidator(value)
  ELSE EmailValidator(value)

ValidatedAttrs == {"username", "email"}

\* ------------------------------------------------------------------ state
VARIABLES
  heap,       \* the live objects: object -> [id, dict]
  allocated,  \* how many objects have been constructed so far
  names,      \* the program's variables: name -> object, or NoObject if unbound
  cache,      \* UserProfileManager._cache: key -> the object weakly referred to
  registered, \* history: the <<object, key>> pairs add_to_cache has stored
  last        \* the last statement run and the exception that left it

vars == <<heap, allocated, names, cache, registered, last>>

Objects == 1..MaxObjects

Live == DOMAIN heap

NoObject == 0

Call(op, name, exc) == [op |-> op, name |-> name, exc |-> exc]

\* a dict without the keys in ks
DictWithout(d, ks) == [x \in (DOMAIN d) \ ks |-> d[x]]

\* d[k] = v on a dict
DictPut(d, k, v) == [x \in (DOMAIN d) \cup {k} |-> IF x = k THEN v ELSE d[x]]

\* dict.get(k): the value, or None when the key is absent
DictGet(d, k) == IF k \in DOMAIN d THEN d[k] ELSE None

UsedAddrs == { heap[o].id : o \in Live }

\* The variables bound to object o: the strong references outside the cache.
Referrers(nm, o) == { x \in Names : nm[x] = o }

Init ==
  /\ heap = <<>>
  /\ allocated = 0
  /\ names = [x \in Names |-> NoObject]
  /\ cache = <<>>
  /\ registered = {}
  /\ last = Call("start", "-", NoException)

\* ------------------------------------------------------ reference counting
\* The strong references the cache holds on o: a WeakValueDictionary holds
\* none.
CacheStrongRefsDict(c, o) == Cardinality({ k \in DOMAIN c : c[k] = o })

CacheStrongRefs(c, o) == 0

\* The reference count of o: the variables bound to it and the strong
\* references of the cache.
RefCount(nm, c, o) == Cardinality(Referrers(nm, o)) + CacheStrongRefs(c, o)

\* The callback of the weak references of a WeakValueDictionary: when the
\* object dies, the entries that refer to it are removed.
WeakRefCallbackMissing(c, o) == c

WeakRefCallback(c, o) == DictWithout(c, { k \in DOMAIN c : c[k] = o })

\* ------------------------------------------------------------- operations
\* UserProfileManager.__init__: the instance dict after self.last_login = None
InitDict == DictPut(<<>>, "last_login", None)

\* x = UserProfileManager(): a new object at a free address, bound to x.
Construct(x) ==
  /\ names[x] = NoObject
  /\ allocated < MaxObjects
  /\ \E a \in Addrs \ UsedAddrs :
       LET o == allocated + 1 IN
       /\ heap' = DictPut(heap, o, [id |-> a, dict |-> InitDict])
       /\ allocated' = o
       /\ names' = [names EXCEPT ![x] = o]
       /\ last' = Call("construct", "-", NoException)
  /\ UNCHANGED <<cache, registered>>

\* y = x: one more strong reference to the object of x.
Alias(x, y) ==
  /\ names[x] # NoObject
  /\ names[y] = NoObject
  /\ names' = [names EXCEPT ![y] = names[x]]
  /\ last' = Call("alias", "-", NoException)
  /\ UNCHANGED <<heap, allocated, cache, registered>>

\* del x: the reference is dropped; an object whose reference count falls to
\* zero is deallocated, and the callbacks of its weak references run.
Del(x) ==
  /\ names[x] # NoObject
  /\ LET o == names[x]
         nm == [names EXCEPT ![x] = NoObject]
     IN /\ names' = nm
        /\ IF RefCount(nm, cache, o) = 0
             THEN /\ heap' = DictWithout(heap, {o})
                  /\ cache' = WeakRefCallback(cache, o)
             ELSE UNCHANGED <<heap, cache>>
        /\ last' = Call("del", "-", NoException)
  /\ UNCHANGED <<allocated, registered>>

\* ValidatedProperty.__get__
DescGet(desc, h, o) == DictGet(h[o].dict, desc.name)

\* ValidatedProperty.__set__: the heap after the call.
DescSetOnClass(desc, h, o, value) ==
  IF Validate(desc, value) = "True"
    THEN [x \in DOMAIN h |-> [h[x] EXCEPT !.dict = DictPut(h[x].dict, desc.name, value)]]
    ELSE h

DescSetStoresFirst(desc, h, o, value) ==
  [h EXCEPT ![o].dict = DictPut(h[o].dict, desc.name, value)]

DescSet(desc, h, o, value) ==
  IF Validate(desc, value) = "True"
    THEN [h EXCEPT ![o].dict = DictPut(h[o].dict, desc.name, value)]
    ELSE h

\* ValidatedProperty.__set__: the exception that leaves the call.
DescSetRaises(desc, value) ==
  LET r == Validate(desc, value) IN
  IF r = "True" THEN NoException
  ELSE IF r = "False" THEN ValueError(desc.name)
  ELSE TypeError

\* The statement o.username = value or o.email = value on heap h: the
\* descriptor of the class attribute is called; the heap it leaves and the
\* exception that leaves it.
Assign(h, o, attr, value) ==
  [heap |-> DescSet(Descriptor(attr), h, o, value),
   exc |-> DescSetRaises(Descriptor(attr), value)]

\* x.username = value / x.email = value
SetAttr(x, attr, value) ==
  /\ names[x] # NoObject
  /\ heap' = Assign(heap, names[x], attr, value).heap
  /\ last' = Call("set", attr, Assign(heap, names[x], attr, value).exc)
  /\ UNCHANGED <<allocated, names, cache, registered>>

\* obj.username / obj.email, on heap h
GetAttr(h, o, attr) == DescGet(Descriptor(attr), h, o)

\* self.last_login = value
StoreLastLoginUnlessNone(h, o, value) ==
  IF value = None THEN h
  ELSE [h EXCEPT ![o].dict = DictPut(h[o].dict, "last_login", value)]

StoreLastLogin(h, o, value) ==
  [h EXCEPT ![o].dict = DictPut(h[o].dict, "last_login", value)]

\* x.set_last_login(value)
set_last_login(x, value) ==
  /\ names[x] # NoObject
  /\ heap' = StoreLastLogin(heap, names[x], value)
  /\ last' = Call("set_last_login", "last_login", NoException)
  /\ UNCHANGED <<allocated, names, cache, registered>>

\* obj.get_last_login(), on heap h
get_last_login(h, o) == h[o].dict["last_login"]

\* The key add_to_cache stores the manager under: id(manager).
CacheKeyOfClass(h, o) == "0x00"

CacheKey(h, o) == h[o].id

\* cls._cache[id(manager)] = manager
CachePut(c, h, o) == DictPut(c, CacheKey(h, o), o)

\* UserProfileManager.add_to_cache(x)
add_to_cache(x) ==
  /\ names[x] # NoObject
  /\ cache' = CachePut(cache, heap, names[x])
  /\ registered' = registered \cup { <<names[x], CacheKey(heap, names[x])>> }
  /\ last' = Call("add_to_cache", "-", NoException)
  /\ UNCHANGED <<heap, allocated, names>>

\* UserProfileManager.get_from_cache(user_id): WeakValueDictionary.get gives
\* the object of a live weak reference, and None (NoObject) otherwise.
get_from_cache(c, h, user_id) ==
  IF user_id \in DOMAIN c /\ c[user_id] \in DOMAIN h THEN c[user_id] ELSE NoObject

Next ==
  \/ \E x \in Names : Construct(x)
  \/ \E x \in Names, y \in Names : Alias(x, y)
  \/ \E x \in Names : Del(x)
  \/ \E x \in Names, attr \in ValidatedAttrs : \E value \in Inputs(attr) : SetAttr(x, attr, value)
  \/ \E x \in Names, value \in LoginValues : set_last_login(x, value)
  \/ \E x \in Names : add_to_cache(x)

Spec == Init /\ [][Next]_vars

\* ----------------------------------------------------------------- claims
\* What the claims say of values, stated apart from the validators above.
NonEmptyString(v) == v.t = "str" /\ Len(v.v) > 0
HasChar(v, c) == \E i \in 1..Len(v.v) : v.v[i] = c
HasAtAndDot(v) == HasChar(v, "@") /\ HasChar(v, ".")
IsValueError(exc, attr) ==
  exc.type = "ValueError" /\ exc.msg = <<"Invalid value for ", attr>>
HasKey(o, k) == k \in DOMAIN heap[o].dict

\* The formulas that speak of an assignment o.attr = value quantify over the
\* live entities o of the state and a set of values, and speak of
\* Assign(heap, o, attr, value): the heap and the exception SetAttr leaves
\* when it runs that assignment in the state. Probes holds the values the
\* statements of Next assign, and more strings and values that are not
\* strings.
Probes ==
  UsernameInputs \cup EmailInputs \cup
  { PyStr(<<".", "@">>), PyStr(<<"a", "b">>), PyStr(<<"a", ".", "b", "@">>),
    PyList(<<"@">>) }

\* C1: on every live entity the stored username is unset or a non-empty
\* string, and the stored email is unset or a value that contains '@' and
\* contains '.', after any sequence of constructions, accepted and rejected
\* assignments, set_last_login, add_to_cache and deallocations.
C1_StoredValuesPassedValidator ==
  \A o \in Live :
    /\ HasKey(o, "username") => NonEmptyString(heap[o].dict["username"])
    /\ HasKey(o, "email") => HasAtAndDot(heap[o].dict["email"])
    /\ DOMAIN heap[o].dict \subseteq {"username", "email", "last_login"}

\* C1 witness: after an object has been deallocated and another registered in
\* the cache, a rejected assignment leaves an entity with both fields stored.
C1_Witness ==
  /\ last.op = "set" /\ last.exc # NoException
  /\ allocated > Cardinality(Live)
  /\ \E o \in Live :
       /\ HasKey(o, "username") /\ HasKey(o, "email")
       /\ get_last_login(heap, o) # None
       /\ get_from_cache(cache, heap, heap[o].id) = o

\* The values whose validator returns false: for username the empty string
\* and the values that are not strings, for email a string or a list without
\* '@' or without '.'.
ReturnsFalse(attr, value) ==
  \/ attr = "username" /\ ~NonEmptyString(value)
  \/ attr = "email" /\ value.t \in {"str", "list"} /\ ~HasAtAndDot(value)

\* C2: in every reachable state, an assignment of a value whose validator
\* returns false raises ValueError with the message "Invalid value for
\* <field>", and changes nothing: the field reads as before the attempt,
\* None if it was unset.
C2_RejectedAssignmentHasNoEffect ==
  \A o \in Live, attr \in ValidatedAttrs, value \in Probes :
    ReturnsFalse(attr, value) =>
      LET r == Assign(heap, o, attr, value) IN
      /\ IsValueError(r.exc, attr)
      /\ r.heap = heap
      /\ GetAttr(r.heap, o, attr) = GetAttr(heap, o, attr)
      /\ ~HasKey(o, attr) => GetAttr(r.heap, o, attr) = None

\* C2 witness: a rejected assignment to email has just raised ValueError
\* while every live entity has an email stored.
C2_Witness ==
  /\ last.op = "set" /\ last.name = "email" /\ IsValueError(last.exc, "email")
  /\ Live # {}
  /\ \A o \in Live : GetAttr(heap, o, "email") = PyStr(<<"a", "@", ".">>)

\* The values the spec says are accepted: a non-empty string for username, a
\* string with '@' and '.' for email.
ValidString(attr, value) ==
  \/ attr = "username" /\ NonEmptyString(value)
  \/ attr = "email" /\ value.t = "str" /\ HasAtAndDot(value)

\* C3: in every reachable state, an assignment of a non-empty string to
\* username, or of a string with '@' and '.' to email, raises nothing, and
\* the field then reads as the value assigned, whatever it held before.
C3_ValidAssignmentRoundTrips ==
  \A o \in Live, attr \in ValidatedAttrs, value \in Probes :
    ValidString(attr, value) =>
      LET r == Assign(heap, o, attr, value) IN
      /\ r.exc = NoException
      /\ GetAttr(r.heap, o, attr) = value

\* C3 witness: an accepted assignment to email has just been made, and the
\* two live entities read different emails, one of them the string "a@.",
\* and the username "a".
C3_Witness ==
  /\ last.op = "set" /\ last.name = "email" /\ last.exc = NoException
  /\ \E a \in Live, b \in Live :
       /\ GetAttr(heap, a, "email") = PyStr(<<"a", "@", ".">>)
       /\ HasKey(b, "email")
       /\ GetAttr(heap, b, "email") # GetAttr(heap, a, "email")
       /\ GetAttr(heap, a, "username") = PyStr(<<"a">>)
       /\ GetAttr(heap, b, "username") = PyStr(<<"a">>)

\* The heap h2 differs from the heap h at most in the key attr of the dict
\* of o.
DiffersAtMostIn(h2, h, o, attr) ==
  /\ DOMAIN h2 = DOMAIN h
  /\ \A b \in (DOMAIN h) \ {o} : h2[b] = h[b]
  /\ h2[o].id = h[o].id
  /\ \A k \in (DOMAIN h[o].dict \cup DOMAIN h2[o].dict) \ {attr} :
       /\ k \in DOMAIN h[o].dict
       /\ k \in DOMAIN h2[o].dict
       /\ h2[o].dict[k] = h[o].dict[k]

\* C6: in every reachable state, an assignment to a validated field of one
\* entity, accepted or rejected, leaves every other entity's username, email
\* and last_login and the entity's own other fields as they were; and the
\* statement leaves the cache and the variables as they were.
C6_AssignmentTouchesOneField ==
  /\ [](\A a \in Live, attr \in ValidatedAttrs : \A value \in Inputs(attr) :
          LET h2 == Assign(heap, a, attr, value).heap IN
          /\ DiffersAtMostIn(h2, heap, a, attr)
          /\ get_last_login(h2, a) = get_last_login(heap, a)
          /\ \A other \in ValidatedAttrs \ {attr} :
               GetAttr(h2, a, other) = GetAttr(heap, a, other)
          /\ \A b \in Live \ {a} :
               /\ get_last_login(h2, b) = get_last_login(heap, b)
               /\ \A f \in ValidatedAttrs : GetAttr(h2, b, f) = GetAttr(heap, b, f))
  /\ [][last'.op = "set" => (cache' = cache /\ names' = names)]_vars

\* C6 witness: an accepted assignment has just been made in a state with two
\* entities, both in the cache, of which one has a username and the other
\* has none, and whose emails and last_login differ.
C6_Witness ==
  /\ last.op = "set" /\ last.exc = NoException
  /\ \E a \in Live, b \in Live :
       /\ a # b
       /\ HasKey(a, "username") /\ ~HasKey(b, "username")
       /\ HasKey(a, "email") /\ HasKey(b, "email")
       /\ GetAttr(heap, a, "email") # GetAttr(heap, b, "email")
       /\ get_last_login(heap, a) # get_last_login(heap, b)
       /\ get_from_cache(cache, heap, heap[a].id) = a
       /\ get_from_cache(cache, heap, heap[b].id) = b

\* C7: set_last_login raises nothing and stores any value, None included,
\* so that get_last_login then gives it; a new entity's last_login is None;
\* and no other statement changes an entity's last_login, so get_last_login
\* gives the value of the latest set_last_login, or None if there was none.
C7_LastLoginIsLatestValue ==
  /\ [](\A o \in Live, value \in LoginValues :
          get_last_login(StoreLastLogin(heap, o, value), o) = value)
  /\ [][/\ last'.op = "set_last_login" =>
             /\ last'.exc = NoException
             /\ Cardinality({ o \in Live : heap'[o] # heap[o] }) <= 1
        /\ \A o \in (DOMAIN heap') \ Live : get_last_login(heap', o) = None
        /\ last'.op # "set_last_login" =>
             \A o \in Live \cap DOMAIN heap' :
               get_last_login(heap', o) = get_last_login(heap, o)]_vars

\* C7 witness: a set_last_login has just been made, after which every live
\* entity's last_login is None, while one entity has a field stored.
C7_Witness ==
  /\ last.op = "set_last_login"
  /\ Live # {}
  /\ \A o \in Live : get_last_login(heap, o) = None
  /\ \E o \in Live : HasKey(o, "username")

\* C8 (as claimed): when the validator raises, the assignment fails with
\* ValueError naming the field and the stored value stays.
C8_RaisingValidatorGivesValueError ==
  \A o \in Live, attr \in ValidatedAttrs, value \in Probes :
    Validate(Descriptor(attr), value) \notin {"True", "False"} =>
      LET r == Assign(heap, o, attr, value) IN
      /\ IsValueError(r.exc, attr)
      /\ r.heap = heap

\* C9 (as claimed): every stored email, and every stored username, is a
\* string.
C9_StoredFieldsAreStrings ==
  \A o \in Live :
    /\ HasKey(o, "username") => heap[o].dict["username"].t = "str"
    /\ HasKey(o, "email") => heap[o].dict["email"].t = "str"

\* C4 (as claimed): for an entity e registered under k, get_from_cache(k) is
\* e while a variable still refers to e, and None once none does.
C4_RegisteredThenNoneOnceCollected ==
  \A p \in registered :
    IF Referrers(names, p[1]) # {}
      THEN get_from_cache(cache, heap, p[2]) = p[1]
      ELSE get_from_cache(cache, heap, p[2]) = NoObject

\* The entities other than e that were registered under key k and whose id
\* is k.
OthersRegistered(e, k) ==
  { f \in Live \ {e} : <<f, k>> \in registered /\ heap[f].id = k }

\* C4 (amended): for an entity e registered under k, get_from_cache(k) is e
\* while a variable still refers to e; once none does, it is None until
\* another entity whose id is k is passed to add_to_cache, and that entity
\* from then on.
C4_RegisteredUntilCollected ==
  \A p \in registered :
    IF Referrers(names, p[1]) # {}
      THEN get_from_cache(cache, heap, p[2]) = p[1]
      ELSE IF OthersRegistered(p[1], p[2]) = {}
             THEN get_from_cache(cache, heap, p[2]) = NoObject
             ELSE get_from_cache(cache, heap, p[2]) \in OthersRegistered(p[1], p[2])

\* C4 witness: after a later assignment, one registered entity has been
\* deallocated and its key gives None, another is still referred to and its
\* key gives it.
C4_Witness ==
  /\ last.op = "set"
  /\ \E p \in registered, q \in registered :
       /\ p[1] \notin Live
       /\ get_from_cache(cache, heap, p[2]) = NoObject
       /\ q[1] \in Live
       /\ get_from_cache(cache, heap, q[2]) = q[1]

\* C5: the cache holds no strong reference: add_to_cache leaves the
\* reference count of the entity as it was, no entity stays alive without a
\* variable that refers to it, in the cache or not, and every entry of the
\* cache refers to a live entity that a variable still refers to.
C5_CacheHoldsNoStrongReference ==
  /\ \A o \in Live :
       /\ Referrers(names, o) # {}
       /\ RefCount(names, CachePut(cache, heap, o), o) = RefCount(names, cache, o)
  /\ \A k \in DOMAIN cache :
       cache[k] \in Live /\ Referrers(names, cache[k]) # {}

\* C5 witness: the last reference to a registered entity has just been
\* dropped, and neither the entity nor its entry is left.
C5_Witness ==
  /\ last.op = "del"
  /\ \E p \in registered :
       /\ p[1] \notin Live
       /\ p[2] \notin DOMAIN cache
       /\ p[2] \notin UsedAddrs

\* C10: every cache entry maps a key k to a live entity whose id is k and
\* which was passed to add_to_cache; get_from_cache never gives an entity
\* that was not registered under that key.
C10_CacheEntriesAreRegisteredUnderOwnId ==
  /\ \A k \in DOMAIN cache :
       /\ cache[k] \in Live
       /\ heap[cache[k]].id = k
       /\ <<cache[k], k>> \in registered
  /\ \A k \in Addrs :
       get_from_cache(cache, heap, k) # NoObject =>
         /\ heap[get_from_cache(cache, heap, k)].id = k
         /\ <<get_from_cache(cache, heap, k), k>> \in registered

\* C10 witness: a registered entity has been deallocated, a new entity that
\* was never registered has its id, and that id gives None.
C10_Witness ==
  \E p \in registered :
    /\ p[1] \notin Live
    /\ \E o \in Live :
         /\ heap[o].id = p[2]
         /\ \A q \in registered : q[1] # o
         /\ get_from_cache(cache, heap, p[2]) = NoObject

====
